---- MODULE Spec2Model ----
(***************************************************************************)
(* Chemical process simulation of Meadowio/lab_device: Stream, Device,     *)
(* Mixer and Reactor (src/device.cpp; src/device_with_gtest.cpp holds the  *)
(* same classes).  A caller builds devices, wires streams to them with     *)
(* addInput/addOutput and calls updateOutputs.  The program is             *)
(* single-threaded: every call is one atomic step.                         *)
(*                                                                         *)
(* mass_flow is a double in the source.  The model counts it in whole      *)
(* quanta 0..MaxMass; sums are exact, and a halving (exact on doubles) is  *)
(* taken only where the half is again a whole number of quanta.            *)
(***************************************************************************)
EXTENDS Integers, Sequences, FiniteSets, TLC

\* ---------------------------------------------------------------- bounds
MaxN == 2
MaxMass == 3

\* ------------------------------------------------------------- constants
MIXER_OUTPUTS == 1

Streams == {"s1", "s2", "s3"}
Devices == {"d1", "d2"}
Mass == 0..MaxMass

VARIABLES
    ctor,           \* the constructor call that built each device (never changes)
    inputs,         \* Device::inputs
    outputs,        \* Device::outputs
    inputAmount,    \* Device::inputAmount
    outputAmount,   \* Device::outputAmount
    inputs_count,   \* Mixer::_inputs_count
    isDoubleOutput, \* Reactor::isDoubleOutput
    mass_flow,      \* Stream::mass_flow
    last            \* the call the caller made last, and how it ended

wiring == <<inputs, outputs>>
fields == <<ctor, inputAmount, outputAmount, inputs_count, isDoubleOutput>>
vars == <<ctor, inputs, outputs, inputAmount, outputAmount, inputs_count,
          isDoubleOutput, mass_flow, last>>

\* ------------------------------------------------------------ the caller
NotBuilt == [class |-> "none"]
MixerCall(n) == [class |-> "Mixer", inputs_count |-> n]
ReactorCall(b) == [class |-> "Reactor", isDoubleReactor |-> b]

IsMixer(d) == ctor[d].class = "Mixer"
IsReactor(d) == ctor[d].class = "Reactor"
Built == {d \in Devices : ctor[d].class # "none"}

Call(op, d, s, err) ==
    [op |-> op, dev |-> d, arg |-> s, err |-> err,
     ret |-> FALSE, kept |-> FALSE, rerun |-> FALSE, after |-> "none"]

Range(q) == {q[i] : i \in 1..Len(q)}

\* ---------------------------------------------------------- construction
\* Device(): value-initialisation leaves both amounts 0 and both vectors empty.
DeviceCtor == [inputs |-> <<>>, outputs |-> <<>>, inputAmount |-> 0, outputAmount |-> 0]

MixerCtor(n) == [base |-> DeviceCtor, inputs_count |-> n]

ReactorCtorSwapped(isDoubleReactor) ==
    [base |-> [DeviceCtor EXCEPT !.inputAmount = 1,
                                 !.outputAmount = IF isDoubleReactor THEN 1 ELSE 2],
     isDoubleOutput |-> isDoubleReactor]

ReactorCtor(isDoubleReactor) ==
    [base |-> [DeviceCtor EXCEPT !.inputAmount = 1,
                                 !.outputAmount = IF isDoubleReactor THEN 2 ELSE 1],
     isDoubleOutput |-> isDoubleReactor]

Construct(d, c) ==
    IF c.class = "Mixer" THEN MixerCtor(c.inputs_count)
    ELSE IF c.class = "Reactor" THEN ReactorCtor(c.isDoubleReactor)
    ELSE [base |-> DeviceCtor]

InitWith(calls) ==
    /\ ctor = calls
    /\ inputs = [d \in Devices |-> Construct(d, calls[d]).base.inputs]
    /\ outputs = [d \in Devices |-> Construct(d, calls[d]).base.outputs]
    /\ inputAmount = [d \in Devices |-> Construct(d, calls[d]).base.inputAmount]
    /\ outputAmount = [d \in Devices |-> Construct(d, calls[d]).base.outputAmount]
    /\ inputs_count = [d \in {e \in Devices : calls[e].class = "Mixer"} |->
                          Construct(d, calls[d]).inputs_count]
    /\ isDoubleOutput = [d \in {e \in Devices : calls[e].class = "Reactor"} |->
                          Construct(d, calls[d]).isDoubleOutput]
    /\ mass_flow \in [Streams -> Mass]
    /\ last = Call("none", "none", "none", "none")

\* One device, a Mixer of any capacity 0..MaxN or a Reactor of either mode.
Init ==
    \E c \in {MixerCall(n) : n \in 0..MaxN} \cup {ReactorCall(b) : b \in BOOLEAN} :
        InitWith([d \in Devices |-> IF d = "d1" THEN c ELSE NotBuilt])

\* ------------------------------------------------------------- Stream
\* Stream::setMassFlow
SetMassFlow(s, m) ==
    /\ mass_flow' = [mass_flow EXCEPT ![s] = m]
    /\ last' = Call("setMassFlow", "none", s, "none")
    /\ UNCHANGED <<wiring, fields>>

\* ------------------------------------------------------------- Device
\* Device::addInput: the inherited method, the one a Reactor runs.
DeviceAddInput(d, s) ==
    /\ IF Len(inputs[d]) < inputAmount[d]
         THEN /\ inputs' = [inputs EXCEPT ![d] = Append(@, s)]
              /\ last' = Call("addInput", d, s, "none")
         ELSE /\ inputs' = inputs
              /\ last' = Call("addInput", d, s, "INPUT STREAM LIMIT!")
    /\ UNCHANGED <<outputs, mass_flow, fields>>

\* Device::addOutput with <= for <.
DeviceAddOutputOffByOne(d, s) ==
    /\ IF Len(outputs[d]) <= outputAmount[d]
         THEN /\ outputs' = [outputs EXCEPT ![d] = Append(@, s)]
              /\ last' = Call("addOutput", d, s, "none")
         ELSE /\ outputs' = outputs
              /\ last' = Call("addOutput", d, s, "OUTPUT STREAM LIMIT!")
    /\ UNCHANGED <<inputs, mass_flow, fields>>

\* Device::addOutput
DeviceAddOutput(d, s) ==
    /\ IF Len(outputs[d]) < outputAmount[d]
         THEN /\ outputs' = [outputs EXCEPT ![d] = Append(@, s)]
              /\ last' = Call("addOutput", d, s, "none")
         ELSE /\ outputs' = outputs
              /\ last' = Call("addOutput", d, s, "OUTPUT STREAM LIMIT!")
    /\ UNCHANGED <<inputs, mass_flow, fields>>

\* -------------------------------------------------------------- Mixer
\* Mixer::addInput with the test one input late.
MixerAddInputOffByOne(d, s) ==
    /\ IF Len(inputs[d]) = inputs_count[d] + 1
         THEN /\ inputs' = inputs
              /\ last' = Call("addInput", d, s, "Too much inputs")
         ELSE /\ inputs' = [inputs EXCEPT ![d] = Append(@, s)]
              /\ last' = Call("addInput", d, s, "none")
    /\ UNCHANGED <<outputs, mass_flow, fields>>

\* Mixer::addInput hides Device::addInput and tests _inputs_count.
MixerAddInput(d, s) ==
    /\ IF Len(inputs[d]) = inputs_count[d]
         THEN /\ inputs' = inputs
              /\ last' = Call("addInput", d, s, "Too much inputs")
         ELSE /\ inputs' = [inputs EXCEPT ![d] = Append(@, s)]
              /\ last' = Call("addInput", d, s, "none")
    /\ UNCHANGED <<outputs, mass_flow, fields>>

\* Mixer::addOutput overwriting the attached output instead of throwing.
MixerAddOutputReplacing(d, s) ==
    /\ IF Len(outputs[d]) = MIXER_OUTPUTS
         THEN /\ outputs' = [outputs EXCEPT ![d] = [@ EXCEPT ![Len(@)] = s]]
              /\ last' = Call("addOutput", d, s, "none")
         ELSE /\ outputs' = [outputs EXCEPT ![d] = Append(@, s)]
              /\ last' = Call("addOutput", d, s, "none")
    /\ UNCHANGED <<inputs, mass_flow, fields>>

\* Mixer::addOutput hides Device::addOutput and tests MIXER_OUTPUTS.
MixerAddOutput(d, s) ==
    /\ IF Len(outputs[d]) = MIXER_OUTPUTS
         THEN /\ outputs' = outputs
              /\ last' = Call("addOutput", d, s, "Too much outputs")
         ELSE /\ outputs' = [outputs EXCEPT ![d] = Append(@, s)]
              /\ last' = Call("addOutput", d, s, "none")
    /\ UNCHANGED <<inputs, mass_flow, fields>>

\* The loop with sum_mass_flow = getMassFlow() for +=.
RECURSIVE SumMassFlowAssign(_, _, _)
SumMassFlowAssign(q, mf, sum_mass_flow) ==
    IF q = <<>> THEN sum_mass_flow
    ELSE SumMassFlowAssign(Tail(q), mf, mf[Head(q)])

\* The loop of Mixer::updateOutputs over inputs: sum_mass_flow += getMassFlow().
RECURSIVE SumMassFlow(_, _, _)
SumMassFlow(q, mf, sum_mass_flow) ==
    IF q = <<>> THEN sum_mass_flow
    ELSE SumMassFlow(Tail(q), mf, sum_mass_flow + mf[Head(q)])

\* What a successful updateOutputs leaves in last: whether it kept the mass
\* flow of each of the device's inputs, whether it re-ran a successful
\* update of the same device that had kept them, and the device whose
\* successful update was the call before it.
Updated(d, mf) ==
    [Call("updateOutputs", d, "none", "none") EXCEPT
        !.kept = \A s \in Range(inputs[d]) : mf[s] = mass_flow[s],
        !.rerun = /\ last.op = "updateOutputs"
                  /\ last.dev = d
                  /\ last.err = "none"
                  /\ last.kept,
        !.after = IF last.op = "updateOutputs" /\ last.err = "none"
                    THEN last.dev ELSE "none"]

\* Mixer::updateOutputs returning quietly where it should throw.
MixerUpdateOutputsSilent(d) ==
    LET sum_mass_flow == SumMassFlow(inputs[d], mass_flow, 0) IN
    /\ IF outputs[d] = <<>>
         THEN /\ mass_flow' = mass_flow
              /\ last' = Updated(d, mass_flow)
         ELSE LET output_mass == sum_mass_flow \div Len(outputs[d])
                  mf == [s \in Streams |->
                            IF s \in Range(outputs[d]) THEN output_mass ELSE mass_flow[s]]
              IN /\ output_mass \in Mass
                 /\ mass_flow' = mf
                 /\ last' = Updated(d, mf)
    /\ UNCHANGED <<wiring, fields>>

\* Mixer::updateOutputs adding the sum to what the output already carries.
MixerUpdateOutputsAccumulate(d) ==
    LET sum_mass_flow == SumMassFlow(inputs[d], mass_flow, 0) IN
    /\ IF outputs[d] = <<>>
         THEN /\ mass_flow' = mass_flow
              /\ last' = Call("updateOutputs", d, "none", "Should set outputs before update")
         ELSE LET output_mass == sum_mass_flow \div Len(outputs[d])
                  mf == [s \in Streams |->
                            IF s \in Range(outputs[d])
                              THEN mass_flow[s] + output_mass ELSE mass_flow[s]]
              IN /\ \A s \in Streams : mf[s] \in Mass
                 /\ mass_flow' = mf
                 /\ last' = Updated(d, mf)
    /\ UNCHANGED <<wiring, fields>>

\* Mixer::updateOutputs setting the mass flow of a copy of the output stream.
MixerUpdateOutputsOnCopy(d) ==
    LET sum_mass_flow == SumMassFlow(inputs[d], mass_flow, 0) IN
    /\ IF outputs[d] = <<>>
         THEN /\ mass_flow' = mass_flow
              /\ last' = Call("updateOutputs", d, "none", "Should set outputs before update")
         ELSE LET output_mass == sum_mass_flow \div Len(outputs[d])
              IN /\ output_mass \in Mass
                 /\ mass_flow' = mass_flow
                 /\ last' = Updated(d, mass_flow)
    /\ UNCHANGED <<wiring, fields>>

\* Mixer::updateOutputs
MixerUpdateOutputs(d) ==
    LET sum_mass_flow == SumMassFlow(inputs[d], mass_flow, 0) IN
    /\ IF outputs[d] = <<>>
         THEN /\ mass_flow' = mass_flow
              /\ last' = Call("updateOutputs", d, "none", "Should set outputs before update")
         ELSE LET output_mass == sum_mass_flow \div Len(outputs[d])
                  mf == [s \in Streams |->
                            IF s \in Range(outputs[d]) THEN output_mass ELSE mass_flow[s]]
              IN /\ output_mass \in Mass
                 /\ mass_flow' = mf
                 /\ last' = Updated(d, mf)
    /\ UNCHANGED <<wiring, fields>>

\* ------------------------------------------------------------ Reactor
\* No split: outputMass = inputMass.
SplitMassWhole(inputMass) == inputMass

\* inputMass / 2.0
SplitMass(inputMass) == inputMass \div 2

\* Reactor::updateOutputs with its two checks in the other order.
ReactorUpdateOutputsOutputsFirst(d) ==
    /\ IF Len(outputs[d]) # outputAmount[d]
         THEN /\ mass_flow' = mass_flow
              /\ last' = Call("updateOutputs", d, "none", "Output streams not properly set for reactor")
         ELSE IF inputs[d] = <<>>
         THEN /\ mass_flow' = mass_flow
              /\ last' = Call("updateOutputs", d, "none", "Input stream not connected to reactor")
         ELSE LET inputMass == mass_flow[inputs[d][1]] IN
              IF isDoubleOutput[d]
                THEN LET outputMass == SplitMass(inputMass)
                         mf0 == [mass_flow EXCEPT ![outputs[d][1]] = outputMass]
                         mf1 == [mf0 EXCEPT ![outputs[d][2]] = outputMass]
                     IN /\ inputMass % 2 = 0
                        /\ mass_flow' = mf1
                        /\ last' = Updated(d, mf1)
                ELSE LET mf0 == [mass_flow EXCEPT ![outputs[d][1]] = inputMass]
                     IN /\ mass_flow' = mf0
                        /\ last' = Updated(d, mf0)
    /\ UNCHANGED <<wiring, fields>>

\* Reactor::updateOutputs writing the first output before it counts the outputs.
ReactorUpdateOutputsWriteFirst(d) ==
    /\ IF inputs[d] = <<>>
         THEN /\ mass_flow' = mass_flow
              /\ last' = Call("updateOutputs", d, "none", "Input stream not connected to reactor")
         ELSE LET inputMass == mass_flow[inputs[d][1]]
                  outputMass == IF isDoubleOutput[d] THEN SplitMass(inputMass) ELSE inputMass
                  mf0 == IF outputs[d] = <<>> THEN mass_flow
                         ELSE [mass_flow EXCEPT ![outputs[d][1]] = outputMass]
              IN IF Len(outputs[d]) # outputAmount[d]
                   THEN /\ mass_flow' = mf0
                        /\ last' = Call("updateOutputs", d, "none", "Output streams not properly set for reactor")
                   ELSE IF isDoubleOutput[d]
                   THEN LET mf1 == [mf0 EXCEPT ![outputs[d][2]] = outputMass]
                        IN /\ inputMass % 2 = 0
                           /\ mass_flow' = mf1
                           /\ last' = Updated(d, mf1)
                   ELSE /\ mass_flow' = mf0
                        /\ last' = Updated(d, mf0)
    /\ UNCHANGED <<wiring, fields>>

\* Reactor::updateOutputs emptying the input stream it has passed on.
ReactorUpdateOutputsDrainInput(d) ==
    /\ IF inputs[d] = <<>>
         THEN /\ mass_flow' = mass_flow
              /\ last' = Call("updateOutputs", d, "none", "Input stream not connected to reactor")
         ELSE IF Len(outputs[d]) # outputAmount[d]
         THEN /\ mass_flow' = mass_flow
              /\ last' = Call("updateOutputs", d, "none", "Output streams not properly set for reactor")
         ELSE LET inputMass == mass_flow[inputs[d][1]] IN
              IF isDoubleOutput[d]
                THEN LET outputMass == SplitMass(inputMass)
                         mf0 == [mass_flow EXCEPT ![outputs[d][1]] = outputMass]
                         mf1 == [mf0 EXCEPT ![outputs[d][2]] = outputMass]
                         mf2 == [mf1 EXCEPT ![inputs[d][1]] = 0]
                     IN /\ inputMass % 2 = 0
                        /\ mass_flow' = mf2
                        /\ last' = Updated(d, mf2)
                ELSE LET mf0 == [mass_flow EXCEPT ![outputs[d][1]] = inputMass]
                         mf2 == [mf0 EXCEPT ![inputs[d][1]] = 0]
                     IN /\ mass_flow' = mf2
                        /\ last' = Updated(d, mf2)
    /\ UNCHANGED <<wiring, fields>>

\* Reactor::updateOutputs
ReactorUpdateOutputs(d) ==
    /\ IF inputs[d] = <<>>
         THEN /\ mass_flow' = mass_flow
              /\ last' = Call("updateOutputs", d, "none", "Input stream not connected to reactor")
         ELSE IF Len(outputs[d]) # outputAmount[d]
         THEN /\ mass_flow' = mass_flow
              /\ last' = Call("updateOutputs", d, "none", "Output streams not properly set for reactor")
         ELSE LET inputMass == mass_flow[inputs[d][1]] IN
              IF isDoubleOutput[d]
                THEN LET outputMass == SplitMass(inputMass)
                         mf0 == [mass_flow EXCEPT ![outputs[d][1]] = outputMass]
                         mf1 == [mf0 EXCEPT ![outputs[d][2]] = outputMass]
                     IN /\ inputMass % 2 = 0
                        /\ mass_flow' = mf1
                        /\ last' = Updated(d, mf1)
                ELSE LET mf0 == [mass_flow EXCEPT ![outputs[d][1]] = inputMass]
                     IN /\ mass_flow' = mf0
                        /\ last' = Updated(d, mf0)
    /\ UNCHANGED <<wiring, fields>>

\* Reactor::getIsDoubleOutput
GetIsDoubleOutput(d) ==
    /\ IsReactor(d)
    /\ last' = [Call("getIsDoubleOutput", d, "none", "none") EXCEPT !.ret = isDoubleOutput[d]]
    /\ UNCHANGED <<wiring, mass_flow, fields>>

\* ------------------------------------------------- calls on a device
\* addInput, addOutput and updateOutputs as the object's class resolves them.
AddInput(d, s) ==
    \/ IsMixer(d) /\ MixerAddInput(d, s)
    \/ IsReactor(d) /\ DeviceAddInput(d, s)

AddOutput(d, s) ==
    \/ IsMixer(d) /\ MixerAddOutput(d, s)
    \/ IsReactor(d) /\ DeviceAddOutput(d, s)

UpdateOutputs(d) ==
    \/ IsMixer(d) /\ MixerUpdateOutputs(d)
    \/ IsReactor(d) /\ ReactorUpdateOutputs(d)

Next ==
    \/ \E s \in Streams, m \in Mass : SetMassFlow(s, m)
    \/ \E d \in Built, s \in Streams : AddInput(d, s)
    \/ \E d \in Built, s \in Streams : AddOutput(d, s)
    \/ \E d \in Built : UpdateOutputs(d)
    \/ \E d \in Built : GetIsDoubleOutput(d)

Spec == Init /\ [][Next]_vars

\* A plant of two devices, a Mixer of one input and a single-mode Reactor,
\* wired by the same calls.
InitChain ==
    InitWith([d \in Devices |-> IF d = "d1" THEN MixerCall(1) ELSE ReactorCall(FALSE)])

SpecChain == InitChain /\ [][Next]_vars

\* =========================================================== properties
\* The capacities a device is built with: a Mixer of inputsCount N takes N
\* inputs and 1 output, a Reactor 1 input and 2 outputs in double mode, else 1.
InputCapacity(d) == IF IsMixer(d) THEN ctor[d].inputs_count ELSE 1
OutputCapacity(d) ==
    IF IsMixer(d) THEN 1 ELSE IF ctor[d].isDoubleReactor THEN 2 ELSE 1

InputLimitErrors == {"INPUT STREAM LIMIT!", "Too much inputs"}
OutputLimitErrors == {"OUTPUT STREAM LIMIT!", "Too much outputs"}

\* The step is the call op on device d.
Calls(op, d) == last'.op = op /\ last'.dev = d

\* C1: in every reachable state each device holds at most InputCapacity
\* inputs and at most OutputCapacity outputs.
C1_CapacityNeverExceeded ==
    \A d \in Built : /\ Len(inputs[d]) <= InputCapacity(d)
                     /\ Len(outputs[d]) <= OutputCapacity(d)

\* A full device has just rejected one more stream.
C1_Witness ==
    \E d \in Built : /\ last.dev = d
                     /\ last.op \in {"addInput", "addOutput"}
                     /\ last.err # "none"
                     /\ Len(inputs[d]) = InputCapacity(d)
                     /\ Len(outputs[d]) = OutputCapacity(d)
                     /\ Len(inputs[d]) >= 1

\* C2: addInput(s) appends s as the last input exactly when the device holds
\* fewer inputs than its capacity; otherwise it throws an input-limit error
\* and inputs, outputs and every mass flow stay as they were.
C2_AddInput ==
    [][\A d \in Built : Calls("addInput", d) =>
          IF Len(inputs[d]) < InputCapacity(d)
            THEN /\ last'.err = "none"
                 /\ inputs' = [inputs EXCEPT ![d] = Append(@, last'.arg)]
            ELSE /\ last'.err \in InputLimitErrors
                 /\ inputs' = inputs
                 /\ outputs' = outputs
                 /\ mass_flow' = mass_flow]_vars

\* A Mixer holding its N >= 2 inputs has rejected another one.
C2_Witness ==
    \E d \in Built : /\ IsMixer(d)
                     /\ last.dev = d
                     /\ last.op = "addInput"
                     /\ last.err \in InputLimitErrors
                     /\ Len(inputs[d]) = 2

\* C3: addOutput(s) appends s as the last output exactly when the device
\* holds fewer outputs than its capacity; otherwise it throws an output-limit
\* error and outputs, inputs and every mass flow stay as they were.
C3_AddOutput ==
    [][\A d \in Built : Calls("addOutput", d) =>
          IF Len(outputs[d]) < OutputCapacity(d)
            THEN /\ last'.err = "none"
                 /\ outputs' = [outputs EXCEPT ![d] = Append(@, last'.arg)]
            ELSE /\ last'.err \in OutputLimitErrors
                 /\ outputs' = outputs
                 /\ inputs' = inputs
                 /\ mass_flow' = mass_flow]_vars

\* A device holding its one output has rejected a second, different stream.
C3_Witness ==
    \E d \in Built : /\ last.dev = d
                     /\ last.op = "addOutput"
                     /\ last.err \in OutputLimitErrors
                     /\ Len(outputs[d]) = 1
                     /\ last.arg # outputs[d][1]

\* m1 + ... + mk over the first k inputs of d, at their current mass flow.
RECURSIVE InputTotal(_, _)
InputTotal(d, k) ==
    IF k = 0 THEN 0 ELSE InputTotal(d, k - 1) + mass_flow[inputs[d][k]]

\* C4: updateOutputs on a Mixer with one output and any k inputs succeeds and
\* leaves in the output the sum of the input mass flows read as it started.
C4_MixerSum ==
    [][\A d \in Built :
          (IsMixer(d) /\ Len(outputs[d]) = 1 /\ Calls("updateOutputs", d)) =>
              /\ last'.err = "none"
              /\ mass_flow'[outputs[d][1]] = InputTotal(d, Len(inputs[d]))]_vars

\* A Mixer has written the sum of two positive inputs to its output.
C4_Witness ==
    \E d \in Built : /\ IsMixer(d)
                     /\ last.dev = d
                     /\ last.op = "updateOutputs"
                     /\ last.err = "none"
                     /\ Len(inputs[d]) = 2
                     /\ mass_flow[inputs[d][1]] > 0
                     /\ mass_flow[inputs[d][2]] > 0
                     /\ mass_flow[outputs[d][1]] =
                            mass_flow[inputs[d][1]] + mass_flow[inputs[d][2]]

\* C5: updateOutputs on a fully wired Reactor whose input carries v succeeds
\* and leaves v / outputAmount in every output: v in single mode, v/2 in both
\* outputs in double mode, the two summing to v.
C5_ReactorSplit ==
    [][\A d \in Built :
          (/\ IsReactor(d)
           /\ Len(inputs[d]) = 1
           /\ Len(outputs[d]) = OutputCapacity(d)
           /\ Calls("updateOutputs", d)) =>
              LET v == mass_flow[inputs[d][1]] IN
              /\ last'.err = "none"
              /\ \A i \in 1..Len(outputs[d]) :
                     OutputCapacity(d) * mass_flow'[outputs[d][i]] = v
              /\ ctor[d].isDoubleReactor =>
                     mass_flow'[outputs[d][1]] + mass_flow'[outputs[d][2]] = v]_vars

\* A double Reactor has split an input of 2 into two outputs of 1.
C5_Witness ==
    \E d \in Built : /\ IsReactor(d)
                     /\ ctor[d].isDoubleReactor
                     /\ last.dev = d
                     /\ last.op = "updateOutputs"
                     /\ last.err = "none"
                     /\ mass_flow[inputs[d][1]] = 2
                     /\ outputs[d][1] # outputs[d][2]
                     /\ mass_flow[outputs[d][1]] = 1
                     /\ mass_flow[outputs[d][2]] = 1

\* C6: updateOutputs on a Reactor with no input throws "input not connected"
\* whatever outputs are attached, and leaves the mass flow of each of them.
C6_ReactorNoInput ==
    [][\A d \in Built :
          (IsReactor(d) /\ inputs[d] = <<>> /\ Calls("updateOutputs", d)) =>
              /\ last'.err = "Input stream not connected to reactor"
              /\ \A s \in Range(outputs[d]) : mass_flow'[s] = mass_flow[s]]_vars

\* A Reactor with no input and two outputs has refused to update.
C6_Witness ==
    \E d \in Built : /\ IsReactor(d)
                     /\ last.dev = d
                     /\ last.op = "updateOutputs"
                     /\ last.err = "Input stream not connected to reactor"
                     /\ inputs[d] = <<>>
                     /\ Len(outputs[d]) = 2

\* C7: updateOutputs on a Reactor with its input but not exactly outputAmount
\* outputs throws "outputs not properly set" and changes no mass flow and
\* neither collection.
C7_ReactorWrongOutputs ==
    [][\A d \in Built :
          (/\ IsReactor(d)
           /\ inputs[d] # <<>>
           /\ Len(outputs[d]) # OutputCapacity(d)
           /\ Calls("updateOutputs", d)) =>
              /\ last'.err = "Output streams not properly set for reactor"
              /\ mass_flow' = mass_flow
              /\ inputs' = inputs
              /\ outputs' = outputs]_vars

\* A double Reactor with one output, carrying another mass flow than half the
\* input, has refused to update.
C7_Witness ==
    \E d \in Built : /\ IsReactor(d)
                     /\ ctor[d].isDoubleReactor
                     /\ last.dev = d
                     /\ last.op = "updateOutputs"
                     /\ last.err = "Output streams not properly set for reactor"
                     /\ Len(outputs[d]) = 1
                     /\ 2 * mass_flow[outputs[d][1]] # mass_flow[inputs[d][1]]

\* C8: updateOutputs on a Mixer with no output throws "set outputs before
\* update" for any inputs and changes no mass flow and neither collection;
\* with an output attached it does not throw.
C8_MixerNoOutput ==
    [][\A d \in Built : (IsMixer(d) /\ Calls("updateOutputs", d)) =>
          IF outputs[d] = <<>>
            THEN /\ last'.err = "Should set outputs before update"
                 /\ mass_flow' = mass_flow
                 /\ inputs' = inputs
                 /\ outputs' = outputs
            ELSE last'.err = "none"]_vars

\* A Mixer with two inputs and no output has refused to update.
C8_Witness ==
    \E d \in Built : /\ IsMixer(d)
                     /\ last.dev = d
                     /\ last.op = "updateOutputs"
                     /\ last.err = "Should set outputs before update"
                     /\ Len(inputs[d]) = 2
                     /\ outputs[d] = <<>>

\* The step is an updateOutputs on d straight after a successful one.
SecondUpdate(d) ==
    /\ last.op = "updateOutputs"
    /\ last.dev = d
    /\ last.err = "none"
    /\ Calls("updateOutputs", d)

\* C9 as stated: however the device is wired, an updateOutputs straight after
\* a successful one changes no mass flow.
C9_AnyWiringIdempotent ==
    [][\A d \in Built : SecondUpdate(d) => mass_flow' = mass_flow]_vars

\* C9: an updateOutputs straight after a successful one that left the mass
\* flow of each of the device's inputs as it found it changes no mass flow.
C9_IdempotentOnKeptInputs ==
    [][\A d \in Built : (SecondUpdate(d) /\ last.kept) => mass_flow' = mass_flow]_vars

\* A device with input and a non-zero output has been updated twice running,
\* the first update having kept its inputs.
C9_Witness ==
    \E d \in Built : /\ last.dev = d
                     /\ last.op = "updateOutputs"
                     /\ last.rerun
                     /\ inputs[d] # <<>>
                     /\ mass_flow[outputs[d][1]] > 0

\* C10: a Reactor's isDoubleOutput, and what getIsDoubleOutput returns, is
\* the constructor's argument in every reachable state, outputAmount is 2
\* when it is true and 1 when not, and getIsDoubleOutput changes nothing.
C10_DoubleOutputStable ==
    /\ [](\A d \in Built : IsReactor(d) =>
             /\ isDoubleOutput[d] = ctor[d].isDoubleReactor
             /\ outputAmount[d] = IF ctor[d].isDoubleReactor THEN 2 ELSE 1
             /\ (last.op = "getIsDoubleOutput" /\ last.dev = d) =>
                    last.ret = ctor[d].isDoubleReactor)
    /\ [][last'.op = "getIsDoubleOutput" =>
             UNCHANGED <<wiring, mass_flow, fields>>]_vars

\* getIsDoubleOutput has answered true on a wired double Reactor whose
\* outputs carry half its input.
C10_Witness ==
    \E d \in Built : /\ last.dev = d
                     /\ last.op = "getIsDoubleOutput"
                     /\ last.ret
                     /\ Len(outputs[d]) = 2
                     /\ inputs[d] # <<>>
                     /\ 2 * mass_flow[outputs[d][1]] = mass_flow[inputs[d][1]]

\* The step is a successful updateOutputs on d.
Updates(d) == Calls("updateOutputs", d) /\ last'.err = "none"

\* C11: a successful updateOutputs on a device writes only the mass flow of
\* the streams attached as that device's outputs: the inputs and outputs of
\* every device, every capacity, and the mass flow of every stream that is
\* not among the device's outputs stay as they were.
C11_UpdateFrame ==
    [][\A d \in Built : Updates(d) =>
          /\ inputs' = inputs
          /\ outputs' = outputs
          /\ UNCHANGED fields
          /\ \A s \in Streams \ Range(outputs[d]) :
                 mass_flow'[s] = mass_flow[s]]_vars

\* A device has been updated with a non-zero input that is not among its
\* outputs, beside another device that holds a stream of its own.
C11_Witness ==
    \E d \in Built, e \in Built :
        /\ e # d
        /\ last.dev = d
        /\ last.op = "updateOutputs"
        /\ last.err = "none"
        /\ inputs[d] # <<>>
        /\ inputs[d][1] \notin Range(outputs[d])
        /\ mass_flow[inputs[d][1]] > 0
        /\ \E s \in Range(inputs[e]) \cup Range(outputs[e]) :
               /\ s \notin Range(inputs[d]) \cup Range(outputs[d])
               /\ mass_flow[s] # mass_flow[outputs[d][1]]

\* Stream s is an output of device a and an input of another device b.
Shared(a, b, s) ==
    /\ a # b
    /\ s \in Range(outputs[a])
    /\ s \in Range(inputs[b])

\* The mass flow entering d: the sum of a Mixer's inputs, a Reactor's input.
Feed(d) ==
    IF IsMixer(d) THEN InputTotal(d, Len(inputs[d])) ELSE mass_flow[inputs[d][1]]

\* The step leaves in every output of d the share of the mass flow entering
\* d as the step starts.
Computes(d) ==
    \A t \in Range(outputs[d]) : OutputCapacity(d) * mass_flow'[t] = Feed(d)

\* The step is a call that writes stream s: a setMassFlow on it, or a
\* successful updateOutputs of a device it is an output of.
Writes(s) ==
    \/ last'.op = "setMassFlow" /\ last'.arg = s
    \/ \E d \in Built : Updates(d) /\ s \in Range(outputs[d])

\* The step is a successful updateOutputs; Updater is the device updated.
Updating == last'.op = "updateOutputs" /\ last'.err = "none"
Updater == last'.dev

\* A successful a.updateOutputs leaves in the shared stream s what a computed.
C12_ProducerWrites ==
    [][Updating =>
          \A b \in Built, s \in Streams :
              Shared(Updater, b, s) =>
                  OutputCapacity(Updater) * mass_flow'[s] = Feed(Updater)]_vars

\* No call other than a write to s changes the mass flow of s.
C12_KeptUntilWritten ==
    [][mass_flow' = mass_flow
          \/ \A s \in Streams : mass_flow'[s] = mass_flow[s] \/ Writes(s)]_vars

\* A successful b.updateOutputs computes b's outputs from the mass flow its
\* inputs, s among them, carry as it starts; straight after a's update that
\* is what a wrote.
C12_ConsumerReads ==
    [][Updating =>
          \A a \in Built, s \in Streams :
              Shared(a, Updater, s) => Computes(Updater)]_vars

\* a.updateOutputs straight after b's changes no output of b.
C12_NoRevision ==
    [][(Updating /\ last.op = "updateOutputs" /\ last.err = "none") =>
          \A s \in Streams :
              Shared(Updater, last.dev, s) =>
                  \A t \in Range(outputs[last.dev]) : mass_flow'[t] = mass_flow[t]]_vars

\* a.updateOutputs, whenever it runs, changes no output of b that is not an
\* output of a as well.
C12_NoRevisionOfOwnOutputs ==
    [][Updating =>
          \A b \in Built, s \in Streams :
              Shared(Updater, b, s) =>
                  \A t \in Range(outputs[b]) \ Range(outputs[Updater]) :
                      mass_flow'[t] = mass_flow[t]]_vars

\* C12 as stated: with s an output of a and an input of b, b's update after
\* a's computes from what a wrote to s, and a's update after b's leaves the
\* outputs of b as b computed them.
C12_CallOrderPropagation ==
    /\ C12_ProducerWrites
    /\ C12_KeptUntilWritten
    /\ C12_ConsumerReads
    /\ C12_NoRevision

\* C12: with s an output of a and an input of b, b's update after a's, no
\* write to s between them, computes from what a wrote to s, and a's update
\* leaves every output of b that is not also an output of a as it was.
C12_CallOrderPropagationOwnOutputs ==
    /\ C12_ProducerWrites
    /\ C12_KeptUntilWritten
    /\ C12_ConsumerReads
    /\ C12_NoRevisionOfOwnOutputs

\* b has been updated straight after a, and carries in an output of its own
\* the non-zero mass flow a wrote to the stream they share.
C12_Witness ==
    \E a \in Built, b \in Built, s \in Streams :
        /\ Shared(a, b, s)
        /\ last.op = "updateOutputs"
        /\ last.dev = b
        /\ last.err = "none"
        /\ last.after = a
        /\ mass_flow[s] > 0
        /\ \E t \in Range(outputs[b]) \ Range(outputs[a]) :
               OutputCapacity(b) * mass_flow[t] = mass_flow[s]

====
